---- MODULE Spec2Model ----
(***************************************************************************)
(* Model of plyer/platforms/android/filechooser.py: AndroidFileChooser.    *)
(*                                                                         *)
(* Python strings are sequences of tokens; the tokens "/" and ":" are the  *)
(* only ones that contain a separator, so os.path.join, basename and       *)
(* str.split(':') are computed on the sequence as Python computes them on  *)
(* characters.  Python values are tagged records [t, v]:                   *)
(*   t = "none"  : None            t = "str"   : a string, v its tokens    *)
(*   t = "list"  : the list []     t = "raise" : an exception, v its class *)
(***************************************************************************)
EXTENDS Integers, Sequences, FiniteSets, TLC

VARIABLES choosers, bound, ops, invoked, delivered, last, api_version

vars == <<choosers, bound, ops, invoked, delivered, last, api_version>>

----------------------------------------------------------------------------
(* Bounds of the model                                                     *)

MaxChoosers == 2
NumCodes == 2
MaxOps == 2
MaxItems == 3
MaxDeliveries == 2

(* Program constants                                                       *)

RandLo == 123456
ApiThreshold == 28

Codes == RandLo .. (RandLo + NumCodes - 1)
ForeignCode == RandLo - 1
RESULT_OK == -1
RESULT_CANCELED == 0

----------------------------------------------------------------------------
(* Python values                                                           *)

None == [t |-> "none", v |-> <<>>]
Str(s) == [t |-> "str", v |-> s]
EmptyList == [t |-> "list", v |-> <<>>]
Raise(e) == [t |-> "raise", v |-> <<e>>]

IsRaise(x) == x.t = "raise"
Truthy(x) == x.t = "str" /\ x.v # <<>>

(* a call's result: the value (or exception) and the provider interactions *)
(* it made, in order                                                       *)
Ret(val, log) == [val |-> val, log |-> log]

----------------------------------------------------------------------------
(* os.path                                                                 *)

join(a, b) ==
    IF b # <<>> /\ b[1] = "/" THEN b
    ELSE IF a = <<>> \/ a[Len(a)] = "/" THEN a \o b
    ELSE a \o <<"/">> \o b

RECURSIVE LastSep(_, _)
LastSep(p, i) == IF i = 0 THEN 0 ELSE IF p[i] = "/" THEN i ELSE LastSep(p, i - 1)

basename(p) == SubSeq(p, LastSep(p, Len(p)) + 1, Len(p))

(* str.split(':') : the list of the parts between the colons               *)
RECURSIVE Split(_)
Split(s) ==
    IF \A i \in 1..Len(s) : s[i] # ":" THEN <<s>>
    ELSE LET k == CHOOSE i \in 1..Len(s) : s[i] = ":" /\ \A j \in 1..(i-1) : s[j] # ":"
         IN <<SubSeq(s, 1, k - 1)>> \o Split(SubSeq(s, k + 1, Len(s)))

(* the characters of a token: every run of characters of the removable    *)
(* volume's path is spelled out, any other token longer than one character *)
(* shares no run with that path and stays whole                            *)
Chars(tok) ==
    CASE tok = "st" -> <<"s", "t">>
      [] tok = "sto" -> <<"s", "t", "o">>
      [] tok = "stor" -> <<"s", "t", "o", "r">>
      [] tok = "stora" -> <<"s", "t", "o", "r", "a">>
      [] tok = "storag" -> <<"s", "t", "o", "r", "a", "g">>
      [] tok = "storage" -> <<"s", "t", "o", "r", "a", "g", "e">>
      [] tok = "to" -> <<"t", "o">>
      [] tok = "tor" -> <<"t", "o", "r">>
      [] tok = "tora" -> <<"t", "o", "r", "a">>
      [] tok = "torag" -> <<"t", "o", "r", "a", "g">>
      [] tok = "torage" -> <<"t", "o", "r", "a", "g", "e">>
      [] tok = "or" -> <<"o", "r">>
      [] tok = "ora" -> <<"o", "r", "a">>
      [] tok = "orag" -> <<"o", "r", "a", "g">>
      [] tok = "orage" -> <<"o", "r", "a", "g", "e">>
      [] tok = "ra" -> <<"r", "a">>
      [] tok = "rag" -> <<"r", "a", "g">>
      [] tok = "rage" -> <<"r", "a", "g", "e">>
      [] tok = "ag" -> <<"a", "g">>
      [] tok = "age" -> <<"a", "g", "e">>
      [] tok = "ge" -> <<"g", "e">>
      [] tok = "12" -> <<"1", "2">>
      [] tok = "123" -> <<"1", "2", "3">>
      [] tok = "1234" -> <<"1", "2", "3", "4">>
      [] tok = "1234-" -> <<"1", "2", "3", "4", "-">>
      [] tok = "1234-5" -> <<"1", "2", "3", "4", "-", "5">>
      [] tok = "1234-56" -> <<"1", "2", "3", "4", "-", "5", "6">>
      [] tok = "1234-567" -> <<"1", "2", "3", "4", "-", "5", "6", "7">>
      [] tok = "1234-5678" -> <<"1", "2", "3", "4", "-", "5", "6", "7", "8">>
      [] tok = "23" -> <<"2", "3">>
      [] tok = "234" -> <<"2", "3", "4">>
      [] tok = "234-" -> <<"2", "3", "4", "-">>
      [] tok = "234-5" -> <<"2", "3", "4", "-", "5">>
      [] tok = "234-56" -> <<"2", "3", "4", "-", "5", "6">>
      [] tok = "234-567" -> <<"2", "3", "4", "-", "5", "6", "7">>
      [] tok = "234-5678" -> <<"2", "3", "4", "-", "5", "6", "7", "8">>
      [] tok = "34" -> <<"3", "4">>
      [] tok = "34-" -> <<"3", "4", "-">>
      [] tok = "34-5" -> <<"3", "4", "-", "5">>
      [] tok = "34-56" -> <<"3", "4", "-", "5", "6">>
      [] tok = "34-567" -> <<"3", "4", "-", "5", "6", "7">>
      [] tok = "34-5678" -> <<"3", "4", "-", "5", "6", "7", "8">>
      [] tok = "4-" -> <<"4", "-">>
      [] tok = "4-5" -> <<"4", "-", "5">>
      [] tok = "4-56" -> <<"4", "-", "5", "6">>
      [] tok = "4-567" -> <<"4", "-", "5", "6", "7">>
      [] tok = "4-5678" -> <<"4", "-", "5", "6", "7", "8">>
      [] tok = "-5" -> <<"-", "5">>
      [] tok = "-56" -> <<"-", "5", "6">>
      [] tok = "-567" -> <<"-", "5", "6", "7">>
      [] tok = "-5678" -> <<"-", "5", "6", "7", "8">>
      [] tok = "56" -> <<"5", "6">>
      [] tok = "567" -> <<"5", "6", "7">>
      [] tok = "5678" -> <<"5", "6", "7", "8">>
      [] tok = "67" -> <<"6", "7">>
      [] tok = "678" -> <<"6", "7", "8">>
      [] tok = "78" -> <<"7", "8">>
      [] OTHER -> <<tok>>

RECURSIVE Spell(_)
Spell(s) == IF s = <<>> THEN <<>> ELSE Chars(s[1]) \o Spell(Tail(s))

(* a in b for two strings: a is a contiguous run of characters of b        *)
Contains(b, a) ==
    \E i \in 0..(Len(Spell(b)) - Len(Spell(a))) :
       SubSeq(Spell(b), i + 1, i + Len(Spell(a))) = Spell(a)

(* '/'.join(parts)                                                         *)
RECURSIVE SlashJoin(_)
SlashJoin(parts) ==
    IF parts = <<>> THEN <<>>
    ELSE IF Len(parts) = 1 THEN parts[1]
    ELSE parts[1] \o <<"/">> \o SlashJoin(Tail(parts))

RECURSIVE Flatten(_)
Flatten(rows) == IF rows = <<>> THEN <<>> ELSE rows[1] \o Flatten(Tail(rows))

----------------------------------------------------------------------------
(* Locators (android.net.Uri) and the platform's storage roots             *)

ExternalAuthority == "com.android.externalstorage.documents"
DownloadsAuthority == "com.android.providers.downloads.documents"
MediaAuthority == "com.android.providers.media.documents"

Uri(scheme, authority, docId, path) ==
    [scheme |-> scheme, authority |-> authority, docId |-> docId, path |-> path]

NullUri == Uri("null", "", None, <<>>)

IMediaUri == Uri("content", "media", None, <<"/", "external", "/", "images", "/", "media">>)
VMediaUri == Uri("content", "media", None, <<"/", "external", "/", "video", "/", "media">>)
AMediaUri == Uri("content", "media", None, <<"/", "external", "/", "audio", "/", "media">>)
FilesUri == Uri("content", "media", None, <<"/", "external", "/", "file">>)

PrimaryStorage == <<"/", "sdcard">>
SdcardStorage == Str(<<"/", "storage", "/", "1234-5678">>)
DirectoryDocuments == <<"Documents">>
DownloadDir == <<"/", "sdcard", "/", "Download">>
CacheDir == <<"/", "cache">>

NumericIds == {"42", "1034"}

(* DocumentsContract.getDocumentId: IllegalArgumentException on a          *)
(* reference that is no document reference                                 *)
getDocumentId(uri) ==
    IF uri.docId.t = "str" THEN uri.docId ELSE Raise("JavaException")

(* ContentUris.withAppendedId(Uri.parse(down), Long.valueOf(file_id))      *)
withAppendedId(root, id) == Uri("content", "downloads", None, <<"/", root, "/">> \o id)

DownloadRoots == <<"public_downloads", "my_downloads", "all_downloads">>

----------------------------------------------------------------------------
(* The resolution service (ContentResolver) as seen by one dispatch: a     *)
(* function from queries to outcomes.  An outcome raises a provider error  *)
(* or is a cursor: its column names and its rows.                          *)

ArrayOf(x) == [t |-> IF x.t = "none" THEN "array-none" ELSE "array-str", v |-> x.v]

Key(uri, projection, selection, selection_args) ==
    [uri |-> uri, proj |-> projection, sel |-> selection, args |-> selection_args]

Event(op, key) ==
    [op |-> op, uri |-> key.uri, proj |-> key.proj, sel |-> key.sel, args |-> key.args]

GrantElsewhere(uri) == Event("grant", Key(NullUri, "", "", None))

GrantOf(uri) == Event("grant", Key(uri, "", "", None))

ProviderError == [t |-> "raise", cols |-> <<>>, rows |-> <<>>]
Cursor(cols, rows) == [t |-> "rows", cols |-> cols, rows |-> rows]

(* resolver.query(uri, projection, selection, selection_args, sort_order)  *)
query(prov, key) ==
    IF key \in DOMAIN prov THEN prov[key]
    ELSE Cursor(IF key.proj = "*" THEN <<>> ELSE <<key.proj>>, <<>>)

(* cursor.getColumnIndex(name): 0 stands for Android's -1                  *)
getColumnIndex(cols, name) ==
    IF \E i \in 1..Len(cols) : cols[i] = name
    THEN CHOOSE i \in 1..Len(cols) : cols[i] = name /\ \A j \in 1..(i-1) : cols[j] # name
    ELSE 0

_parse_content(prov, uri, projection, selection, selection_args, index_all) ==
    LET key == Key(uri, projection, selection, selection_args)
        log == <<GrantOf(uri), Event("query", key)>>
        read(cursor) ==
            IF cursor.t = "raise" THEN Ret(Raise("JavaException"), log)
            ELSE IF ~index_all
            THEN LET idx == getColumnIndex(cursor.cols, projection)
                 IN  IF idx # 0 /\ cursor.rows # <<>>
                     THEN Ret(Str(cursor.rows[1][idx]), log)
                     ELSE Ret(None, log)
            ELSE Ret(Str(SlashJoin(Flatten(cursor.rows))), log)
    IN  read(query(prov, key))

----------------------------------------------------------------------------
(* Provider strategies                                                     *)

_handle_external_documents(uri) ==
    LET file_id == getDocumentId(uri)
    IN  IF IsRaise(file_id) THEN Ret(file_id, <<>>)
        ELSE LET parts == Split(file_id.v)
             IN  IF Len(parts) # 2 THEN Ret(Raise("ValueError"), <<>>)
                 ELSE LET file_type == parts[1]
                          file_name == parts[2]
                          directory ==
                              IF file_type = <<"primary">> THEN PrimaryStorage
                              ELSE IF file_type = <<"home">>
                                   THEN join(PrimaryStorage, DirectoryDocuments)
                              ELSE IF Truthy(SdcardStorage)
                                      /\ Contains(SdcardStorage.v, file_type)
                                   THEN SdcardStorage.v
                              ELSE PrimaryStorage
                      IN  Ret(Str(join(directory, file_name)), <<>>)

(* the (file_name, selection, uri) triple, or the exception                *)
_handle_media_documents(uri) ==
    LET file_id == getDocumentId(uri)
    IN  IF IsRaise(file_id) THEN [err |-> file_id, file_name |-> None, selection |-> "None", uri |-> uri]
        ELSE LET parts == Split(file_id.v)
             IN  IF Len(parts) # 2
                 THEN [err |-> Raise("ValueError"), file_name |-> None, selection |-> "None", uri |-> uri]
                 ELSE [err |-> None,
                       file_name |-> Str(parts[2]),
                       selection |-> "_id=?",
                       uri |-> IF parts[1] = <<"image">> THEN IMediaUri
                               ELSE IF parts[1] = <<"video">> THEN VMediaUri
                               ELSE IF parts[1] = <<"audio">> THEN AMediaUri
                               ELSE FilesUri]

RECURSIVE TryEvery(_, _, _, _, _, _)
TryEvery(prov, try_uris, i, projection, index_all, acc) ==
    IF i > Len(try_uris) THEN acc
    ELSE LET keep(r) == Ret(IF IsRaise(r.val) THEN acc.val ELSE r.val,
                            acc.log \o r.log)
         IN  TryEvery(prov, try_uris, i + 1, projection, index_all,
                      keep(_parse_content(prov, try_uris[i], projection, "None",
                                          None, index_all)))

(* one pass over try_uris: path is kept when a query raises, the loop      *)
(* stops at the first truthy path                                          *)
RECURSIVE TryUris(_, _, _, _, _, _)
TryUris(prov, try_uris, i, projection, index_all, acc) ==
    IF i > Len(try_uris) THEN acc
    ELSE LET keep(r) == Ret(IF IsRaise(r.val) THEN acc.val ELSE r.val,
                            acc.log \o r.log)
             go(next) == IF Truthy(next.val) THEN next
                         ELSE TryUris(prov, try_uris, i + 1, projection,
                                      index_all, next)
         IN  go(keep(_parse_content(prov, try_uris[i], projection, "None", None,
                                    index_all)))

_handle_downloads_documents(prov, uri) ==
    LET fallback(first) ==
          \* JavaException, or join's TypeError on None: except Exception
          LET file_id == getDocumentId(uri)
              try_uris == [k \in 1..Len(DownloadRoots) |->
                              withAppendedId(DownloadRoots[k], file_id.v)]
              all(data) == IF Truthy(data.val) THEN data
                           ELSE TryUris(prov, try_uris, 1, "*", TRUE, data)
          IN  IF IsRaise(file_id) THEN Ret(file_id, first.log)
              ELSE IF ~(Len(file_id.v) = 1 /\ file_id.v[1] \in NumericIds)
              THEN Ret(Raise("JavaException"), first.log)  \* Long.valueOf
              ELSE all(TryUris(prov, try_uris, 1, "_data", FALSE,
                               Ret(None, first.log)))
        named(first) ==
          IF first.val.t = "str"
          THEN Ret(Str(join(DownloadDir, first.val.v)), first.log)
          ELSE fallback(first)
    IN  named(_parse_content(prov, uri, "_display_name", "None", None, FALSE))

----------------------------------------------------------------------------
(* _resolve_uri: the try / except JavaException / finally of the generic   *)
(* stage.  path0 is path before the try; an exception raised by the retry  *)
(* in the except clause is re-raised after the finally clause, unless the  *)
(* finally clause raises itself.                                           *)

GenericStage(prov, uri, _uri, selection, file_name, path0, log0) ==
    LET finally(pending, path, log12) ==
          LET named(t3) ==
                IF IsRaise(t3.val) THEN Ret(t3.val, log12 \o t3.log)
                ELSE IF IsRaise(pending) THEN Ret(pending, log12 \o t3.log)
                ELSE Ret(t3.val, log12 \o t3.log)
          IN  IF Truthy(path) THEN Ret(path, log12)
              ELSE named(_parse_content(prov, _uri, "_display_name", "None", None,
                                        FALSE))
        retry(t1, t2) ==
          finally(IF IsRaise(t2.val) THEN t2.val ELSE None,
                  IF IsRaise(t2.val) THEN path0 ELSE t2.val,
                  log0 \o t1.log \o t2.log)
        try(t1) ==
          IF ~IsRaise(t1.val) THEN finally(None, t1.val, log0 \o t1.log)
          ELSE retry(t1, _parse_content(prov, uri, "_data", selection,
                                        ArrayOf(file_name), FALSE))
    IN  try(_parse_content(prov, uri, "_data", selection, file_name, FALSE))

_resolve_uri(prov, uri) ==
    LET generic(d, m) ==
          IF IsRaise(d.val) THEN d
          ELSE IF IsRaise(m.err) THEN Ret(m.err, <<>>)
          ELSE IF uri.scheme = "content" /\ ~Truthy(d.val)
               THEN GenericStage(prov, m.uri, uri, m.selection, m.file_name,
                                 d.val, d.log)
          \* line 531 reads the locator the media strategy reassigned
          ELSE IF uri.scheme = "file" THEN Ret(Str(m.uri.path), d.log)
          ELSE d
    IN  IF uri = NullUri THEN Ret(Raise("AttributeError"), <<>>)
        ELSE IF uri.authority = ExternalAuthority
             THEN _handle_external_documents(uri)
        ELSE generic(IF uri.authority = DownloadsAuthority
                     THEN _handle_downloads_documents(prov, uri)
                     ELSE Ret(None, <<>>),
                     IF uri.authority = MediaAuthority
                     THEN _handle_media_documents(uri)
                     ELSE [err |-> None, file_name |-> None,
                           selection |-> "None", uri |-> uri])

----------------------------------------------------------------------------
(* The result Intent: null, or its ClipData (possibly absent) and getData()*)

NullIntent == [null |-> TRUE, hasClip |-> FALSE, items |-> <<>>, data |-> NullUri]
Intent(hasClip, items, data) ==
    [null |-> FALSE, hasClip |-> hasClip, items |-> items, data |-> data]

(* self.selection: None until a result is stored                           *)
NoSelection == [set |-> FALSE, items |-> <<>>]
Selection(items) == [set |-> TRUE, items |-> items]

DefaultHandler == 0

(* the for loop over the clip items: selection so far, or the exception    *)
(* that left the loop (AttributeError when there is no ClipData)           *)
RECURSIVE ClipLoop(_, _, _, _)
ClipLoop(prov, data, count, acc) ==
    IF ~data.hasClip THEN [err |-> Raise("AttributeError"), sel |-> acc.sel, log |-> acc.log]
    ELSE IF count > Len(data.items) THEN acc
    ELSE LET append(r) ==
               IF IsRaise(r.val)
               THEN [err |-> r.val, sel |-> acc.sel, log |-> acc.log \o r.log]
               ELSE ClipLoop(prov, data, count + 1,
                             [err |-> None,
                              sel |-> Append(acc.sel, IF Truthy(r.val) THEN r.val
                                                      ELSE EmptyList),
                              log |-> acc.log \o r.log])
         IN  append(_resolve_uri(prov, data.items[count]))

(* lines 212-220: the selection list, or the exception of the fallback     *)
ResolveSelection(prov, data) ==
    LET single(loop, r) ==
          IF IsRaise(r.val)
          THEN [err |-> r.val, sel |-> <<>>, log |-> loop.log \o r.log]
          ELSE [err |-> None, sel |-> <<r.val>>, log |-> loop.log \o r.log]
        except(loop) ==
          IF ~IsRaise(loop.err) THEN loop
          ELSE single(loop, _resolve_uri(prov, data.data))
    IN  except(ClipLoop(prov, data, 1, [err |-> None, sel |-> <<>>, log |-> <<>>]))

(* cr.openInputStream(uri): a provider error, or a stream                  *)
StreamKey(uri) == Key(uri, "openInputStream", "None", None)
openInputStream(prov, uri) ==
    IF uri = NullUri THEN ProviderError ELSE query(prov, StreamKey(uri))

(* join(cache_file_loc, filename) is an existing directory: the one made   *)
(* at line 235 for an empty name or '.', its parent for '..'               *)
IsCacheDirectory(filename) == filename \in {<<>>, <<".">>, <<"..">>}

(* lines 225-256: what is handed to the callback, or the exception         *)
Handed(err, arg, log) == [err |-> err, arg |-> arg, log |-> log]

HandOver(prov, data, selection, api) ==
    IF api > ApiThreshold
    THEN IF selection = <<>> THEN Handed(Raise("IndexError"), <<>>, <<>>)
         ELSE IF selection[1].t # "str" THEN Handed(Raise("TypeError"), <<>>, <<>>)
         ELSE LET filename == basename(selection[1].v)
                  cache_file_loc == join(CacheDir, <<"FromSharedStorage">>)
                  cache_file == join(cache_file_loc, filename)
                  rs == openInputStream(prov, data.data)
                  log == <<Event("open", StreamKey(data.data))>>
              IN  \* exists(cache_file) holds and os.remove (line 239) raises
                  IF IsCacheDirectory(filename)
                  THEN Handed(Raise("IsADirectoryError"), <<>>, <<>>)
                  ELSE IF rs.t = "raise"
                  THEN Handed(Raise("JavaException"), <<>>, log)
                  ELSE Handed(None, <<Str(cache_file)>>, log)
    ELSE Handed(None, selection, <<>>)

(* One listener's run: the chooser afterwards, the callback invocations,   *)
(* the provider interactions and the exception that ended it, if any       *)
Outcome(self, fired, log, raised) ==
    [self |-> self, fired |-> fired, log |-> log, raised |-> raised]

NeverCancelled(result_code) == FALSE

(* line 207: the action had been cancelled                                 *)
Cancelled(result_code) == result_code # RESULT_OK

MatchesAny(self, request_code) == TRUE

(* line 211: the result is for this chooser's launch                       *)
Matches(self, request_code) == request_code = self.select_code

_on_activity_result(self, request_code, result_code, data, prov, api) ==
    LET call(stored, r, h) ==
          IF IsRaise(h.err)
          THEN Outcome(stored, <<>>, r.log \o h.log, h.err)
          ELSE Outcome(stored, <<[cb |-> self.handler, arg |-> h.arg]>>,
                       r.log \o h.log, None)
        store(r) ==
          IF IsRaise(r.err) THEN Outcome(self, <<>>, r.log, r.err)
          ELSE call([self EXCEPT !.selection = Selection(r.sel)], r,
                    HandOver(prov, data, r.sel, api))
    IN  IF data.null THEN Outcome(self, <<>>, <<>>, None)
        ELSE IF Cancelled(result_code) THEN Outcome(self, <<>>, <<>>, None)
        ELSE IF Matches(self, request_code)
        THEN store(ResolveSelection(prov, data))
        ELSE Outcome(self, <<>>, <<>>, None)

----------------------------------------------------------------------------
(* The process: the choosers constructed so far (instance()), the          *)
(* listeners bound to on_activity_result in binding order, the open() and  *)
(* save() calls made so far with the request code each launch carried, how *)
(* often each callback was invoked, and the last step with what it did.    *)

(* save_code is drawn at line 114 and read nowhere: it is no state         *)
Chooser(select_code) ==
    [select_code |-> select_code, selection |-> NoSelection,
     handler |-> DefaultHandler]

NoStep == [kind |-> "init", chooser |-> 0, op |-> 0, request_code |-> 0,
           result_code |-> 0, again |-> FALSE, data |-> NullIntent, prov |-> <<>>,
           fired |-> <<>>, log |-> <<>>, raised |-> <<>>]

Init ==
    /\ choosers = <<>>
    /\ bound = <<>>
    /\ ops = <<>>
    /\ invoked = [cb \in 0..MaxOps |-> 0]
    /\ delivered = 0
    /\ last = NoStep
    /\ api_version \in {ApiThreshold, ApiThreshold + 1}

(* instance(): __init__ draws both codes and binds the listener            *)
Construct ==
    /\ Len(choosers) < MaxChoosers
    /\ \E select_code \in Codes :
          choosers' = Append(choosers, Chooser(select_code))
    /\ bound' = Append(bound, Len(choosers) + 1)
    /\ last' = [NoStep EXCEPT !.kind = "instance", !.chooser = Len(choosers) + 1]
    /\ UNCHANGED <<ops, invoked, delivered, api_version>>

KeepHandler(self, supplied, cb) == self.handler

(* kwargs.pop('on_selection', self._handle_selection)                      *)
PopHandler(self, supplied, cb) == IF supplied THEN cb ELSE self.handler

Op(kind, c, token, cb, supplied) ==
    [kind |-> kind, chooser |-> c, token |-> token, cb |-> cb,
     supplied |-> supplied, done |-> FALSE]

(* the request code handed to startActivityForResult                       *)
LaunchCode(self) == self.select_code

(* the filters argument of open(): absent, a list with a first entry, an   *)
(* empty list, or a value that cannot be indexed (None)                    *)
FiltersArgs == {"absent", "given", "empty", "none"}

(* line 145, kwargs.pop("filters")[0]: the exception it raises, if any     *)
PopFilters(filters) ==
    IF filters = "empty" THEN Raise("IndexError")
    ELSE IF filters = "none" THEN Raise("TypeError")
    ELSE None

(* the handler is replaced at line 141; when line 145 raises the call ends *)
(* there and startActivityForResult is never reached: the call is recorded *)
(* with request code 0, no launch                                          *)
_open_file(c, supplied, filters) ==
    LET id == Len(ops) + 1
        h == PopHandler(choosers[c], supplied, id)
        err == PopFilters(filters)
    IN  /\ choosers' = [choosers EXCEPT ![c].handler = h]
        /\ ops' = Append(ops, Op("open", c,
                                 IF IsRaise(err) THEN 0 ELSE LaunchCode(choosers[c]),
                                 h, supplied))
        /\ last' = [NoStep EXCEPT !.kind = "open", !.chooser = c, !.op = id,
                       !.raised = IF IsRaise(err)
                                  THEN <<[chooser |-> c, err |-> err]>> ELSE <<>>]
        /\ UNCHANGED <<bound, invoked, delivered, api_version>>

Open ==
    /\ Len(ops) < MaxOps
    /\ \E c \in 1..Len(choosers), supplied \in BOOLEAN, filters \in FiltersArgs :
          _open_file(c, supplied, filters)

AppName == <<"app">>
TempFile ==
    join(join(join(PrimaryStorage, DirectoryDocuments), AppName), <<"__temp_file__">>)

_save_file(c, supplied) ==
    LET id == Len(ops) + 1
        h == PopHandler(choosers[c], supplied, id)
    IN  /\ choosers' = [choosers EXCEPT ![c].handler = h]
        /\ ops' = Append(ops, Op("save", c, 0, h, supplied))
        /\ invoked' = [invoked EXCEPT ![h] = @ + 1]
        /\ last' = [NoStep EXCEPT !.kind = "save", !.chooser = c, !.op = id,
                       !.fired = <<[chooser |-> c, cb |-> h, arg |-> <<Str(TempFile)>>]>>]
        /\ UNCHANGED <<bound, delivered, api_version>>

Save ==
    /\ Len(ops) < MaxOps
    /\ \E c \in 1..Len(choosers), supplied \in BOOLEAN : _save_file(c, supplied)

----------------------------------------------------------------------------
(* A result on the global channel: android.activity hands it to every      *)
(* bound listener in binding order; an exception in one listener ends that *)
(* listener's run only.                                                    *)

RECURSIVE Dispatch(_, _, _, _, _, _, _, _)
Dispatch(chs, i, request_code, result_code, data, prov, api, acc) ==
    IF i > Len(bound) THEN [chs |-> chs, fired |-> acc.fired, log |-> acc.log,
                            raised |-> acc.raised]
    ELSE LET c == bound[i]
             listener(o) ==
               Dispatch([chs EXCEPT ![c] = o.self], i + 1, request_code,
                        result_code, data, prov, api,
                        [fired |-> acc.fired \o
                            [j \in 1..Len(o.fired) |->
                                [chooser |-> c, cb |-> o.fired[j].cb,
                                 arg |-> o.fired[j].arg]],
                         log |-> acc.log \o o.log,
                         raised |-> acc.raised \o
                            (IF IsRaise(o.raised)
                             THEN <<[chooser |-> c, err |-> o.raised]>>
                             ELSE <<>>)])
         IN  listener(_on_activity_result(chs[c], request_code, result_code,
                                          data, prov, api))

RECURSIVE CountCalls(_, _)
CountCalls(fired, cb) ==
    IF fired = <<>> THEN 0
    ELSE (IF fired[1].cb = cb THEN 1 ELSE 0) + CountCalls(Tail(fired), cb)

(* the launch a result answers: the oldest open() call of that request     *)
(* code still waiting, for a successful result with a payload (0: none)    *)
Answered(request_code, result_code, data) ==
    LET waiting == {k \in 1..Len(ops) : /\ ops[k].kind = "open" /\ ~ops[k].done
                                        /\ ops[k].token = request_code}
    IN  IF data.null \/ result_code # RESULT_OK \/ waiting = {} THEN 0
        ELSE CHOOSE k \in waiting : \A j \in waiting : k <= j

(* the step before delivered the same request code and was dropped        *)
(* (cancelled, or without a payload)                                       *)
Dropped(step) ==
    step.kind = "deliver" /\ (step.data.null \/ step.result_code # RESULT_OK)

DeliverResult(request_code, result_code, data, prov) ==
    LET k == Answered(request_code, result_code, data)
        record(d) ==
          /\ choosers' = d.chs
          /\ invoked' = [cb \in DOMAIN invoked |->
                            invoked[cb] + CountCalls(d.fired, cb)]
          /\ ops' = IF k = 0 THEN ops ELSE [ops EXCEPT ![k].done = TRUE]
          /\ delivered' = delivered + 1
          /\ last' = [kind |-> "deliver", chooser |-> 0, op |-> k,
                      request_code |-> request_code, result_code |-> result_code,
                      again |-> (Dropped(last) /\ last.request_code = request_code),
                      data |-> data, prov |-> prov,
                      fired |-> d.fired, log |-> d.log, raised |-> d.raised]
          /\ UNCHANGED <<bound, api_version>>
    IN  /\ delivered < MaxDeliveries
        /\ record(Dispatch(choosers, 1, request_code, result_code, data, prov,
                           api_version,
                           [fired |-> <<>>, log |-> <<>>, raised |-> <<>>]))

(* the payloads and the provider of the correlation specification          *)
GenericC == Uri("content", "com.example.provider", None, <<"/", "item", "/", "1">>)
PathC == <<"/", "sdcard", "/", "c.txt">>

AnswersData(uris) ==
    [key \in {Key(u, "_data", "None", None) : u \in uris}
             \cup {StreamKey(u) : u \in uris}
        |-> IF key.proj = "_data" THEN Cursor(<<"_data">>, <<<<PathC>>>>)
            ELSE Cursor(<<>>, <<>>)]

SpecIntents == {NullIntent, Intent(FALSE, <<>>, GenericC)}

(* every request code no chooser holds behaves as ForeignCode does         *)
HeldCodes == {choosers[c].select_code : c \in 1..Len(choosers)}

Deliver ==
    \E request_code \in HeldCodes \cup {ForeignCode},
       result_code \in {RESULT_OK, RESULT_CANCELED},
       data \in SpecIntents :
          DeliverResult(request_code, result_code, data, AnswersData({GenericC}))

Next == Construct \/ Open \/ Save \/ Deliver

Spec == Init /\ [][Next]_vars

----------------------------------------------------------------------------
(* Vocabulary of the claims                                                *)

(* the open operations: the open() calls that launched the picker         *)
OpenOps == {k \in 1..Len(ops) : ops[k].kind = "open" /\ ops[k].token # 0}
IsDelivery(step) == step.kind = "deliver"
Successful(step) ==
    IsDelivery(step) /\ step.result_code = RESULT_OK /\ ~step.data.null
FiredCbs(step) == {step.fired[i].cb : i \in 1..Len(step.fired)}
DeliveryStep == delivered' = delivered + 1

(* C1: each open operation's on_selection callback is invoked at most      *)
(* once: when only open() calls with an on_selection argument were made no *)
(* callback is invoked twice, and a successful delivery with a payload     *)
(* that answers no waiting operation (every operation of that token was    *)
(* answered before) invokes no callback of those operations.               *)
C1_InvokedAtMostOnce ==
    /\ (\A k \in 1..Len(ops) : k \in OpenOps /\ ops[k].supplied)
          => \A k \in 1..Len(ops) : invoked[ops[k].cb] <= 1
    /\ (Successful(last) /\ last.op = 0)
          => \A k \in OpenOps :
                (ops[k].supplied /\ ops[k].done /\ ops[k].token = last.request_code)
                   => ops[k].cb \notin FiredCbs(last)

(* C2: a successful delivery with a payload that answers an open() call    *)
(* made with an on_selection argument (the only call of that token still   *)
(* waiting) invokes, on that call's chooser, the callback supplied to that *)
(* call, whatever open() and save() calls came in between.                 *)
C2_SuppliedCallbackInvoked ==
    (/\ Successful(last) /\ last.op # 0
     /\ ops[last.op].supplied
     /\ \A j \in OpenOps \ {last.op} :
           ops[j].token = last.request_code => ops[j].done)
       => \A i \in 1..Len(last.fired) :
             last.fired[i].chooser = ops[last.op].chooser
                => last.fired[i].cb = ops[last.op].cb

(* C3: no two outstanding open operations (launched, not yet answered)     *)
(* hold the same token.                                                    *)
C3_TokensUnique ==
    \A j \in OpenOps, k \in OpenOps :
       (j < k /\ ~ops[j].done /\ ~ops[k].done) => ops[j].token # ops[k].token

(* C4: a delivery with token t1 (any status, any payload) never invokes    *)
(* the callback registered for an operation of another token t2.           *)
C4_NoCrossTalk ==
    IsDelivery(last)
       => \A k \in OpenOps :
             (ops[k].token # last.request_code /\ ops[k].cb # DefaultHandler)
                => ops[k].cb \notin FiredCbs(last)

C4_Witness ==
    /\ Successful(last)
    /\ \E j \in OpenOps, k \in OpenOps :
          /\ ops[j].supplied /\ ops[k].supplied
          /\ ops[j].token = last.request_code
          /\ ops[k].token # last.request_code
          /\ ~ops[k].done
          /\ ops[j].cb \in FiredCbs(last)

(* C5: a successful delivery with a payload whose token is the token of no *)
(* registered operation is a no-op: no callback fires, no provider query   *)
(* or permission grant is issued, and every chooser's token, callback and  *)
(* stored selection are unchanged.                                         *)
C5_UnknownTokenNoOp ==
    [][(/\ DeliveryStep /\ Successful(last')
        /\ \A k \in OpenOps : ops[k].token # last'.request_code)
          => (last'.fired = <<>> /\ last'.log = <<>> /\ choosers' = choosers)]_vars

(* C6: a delivery with the token of a registered operation that is         *)
(* cancelled or has no payload invokes no callback and leaves every        *)
(* registration (token and callback) unchanged; a successful delivery of   *)
(* that token right after it invokes the registered callback of every      *)
(* chooser holding the token, unless the resolution ends in an error.      *)
C6_DroppedKeepsRegistration ==
    [][/\ (/\ DeliveryStep /\ Dropped(last')
           /\ \E k \in OpenOps : ops[k].token = last'.request_code)
             => /\ last'.fired = <<>> /\ last'.log = <<>>
                /\ invoked' = invoked /\ choosers' = choosers /\ ops' = ops
       /\ (DeliveryStep /\ Successful(last') /\ last'.again /\ last'.raised = <<>>)
             => \A c \in 1..Len(choosers) :
                   choosers[c].select_code = last'.request_code
                      => \E i \in 1..Len(last'.fired) :
                            /\ last'.fired[i].chooser = c
                            /\ last'.fired[i].cb = choosers[c].handler]_vars

C6_Witness ==
    /\ Successful(last) /\ last.again
    /\ \E k \in OpenOps :
          /\ ops[k].supplied /\ ops[k].token = last.request_code
          /\ ops[k].cb \in FiredCbs(last)

(* C10: at most one global result listener is ever bound in the process.   *)
C10_SingleListener == Len(bound) <= 1

(* a step that is one save() call made with an on_selection argument       *)
SaveStep ==
    /\ Len(ops') = Len(ops) + 1
    /\ ops'[Len(ops')].kind = "save" /\ ops'[Len(ops')].supplied

(* C11: save(on_selection) invokes its callback exactly once, before it    *)
(* returns, with a one-element list holding the temporary path under the   *)
(* app documents directory; it launches no picker (no open operation is    *)
(* added, no provider interaction) and no chooser's request code changes.  *)
C11_SaveIsSynchronous ==
    [][SaveStep =>
         LET id == Len(ops')
             c == ops'[id].chooser
         IN  /\ last'.fired =
                  <<[chooser |-> c, cb |-> id,
                     arg |-> <<Str(<<"/", "sdcard", "/", "Documents", "/", "app",
                                     "/", "__temp_file__">>)>>]>>
             /\ invoked' = [invoked EXCEPT ![id] = @ + 1]
             /\ OpenOps' = OpenOps
             /\ last'.log = <<>>
             /\ Len(choosers') = Len(choosers)
             /\ \A k \in 1..Len(choosers) :
                   choosers'[k].select_code = choosers[k].select_code]_vars

C11_Witness ==
    /\ last.kind = "save" /\ ops[last.op].supplied
    /\ invoked[last.op] = 1
    /\ OpenOps # {}

(* C12: the callback supplied to an open() call is never invoked unless a  *)
(* successful result with a payload carrying the call's request code has   *)
(* been delivered since (such a result marks an operation of that request  *)
(* code as answered).                                                      *)
C12_InvokedOnlyOnResult ==
    \A k \in OpenOps :
       (ops[k].supplied /\ invoked[ops[k].cb] > 0)
          => \E j \in OpenOps : ops[j].done /\ ops[j].token = ops[k].token

----------------------------------------------------------------------------
(* The aggregation specification: one chooser with one open() call made,   *)
(* and one successful result of its request code, over every payload of up *)
(* to MaxItems items and every behaviour of the provider on the queries    *)
(* the payload can cause.                                                  *)

FileA == Uri("file", "", None, <<"/", "sdcard", "/", "a.txt">>)
FileB == Uri("file", "", None, <<"/", "sdcard", "/", "b.txt">>)
NameC == <<"c.txt">>

AggUris == {FileA, FileB, GenericC}

AggIntents ==
    {Intent(TRUE, items, d) :
        <<items, d>> \in {<<it, u>> \in
            (UNION {[1..n -> AggUris] : n \in 1..MaxItems}) \X (AggUris \cup {NullUri}) :
                u \in {NullUri, it[1]}}}
    \cup {Intent(FALSE, <<>>, u) : u \in AggUris}

DataKeys(u) ==
    {Key(u, "_data", "None", None), Key(u, "_data", "None", ArrayOf(None)),
     Key(u, "_display_name", "None", None)}

Behaviour(key, b) ==
    IF b = "raise" THEN ProviderError
    ELSE IF b = "empty" THEN Cursor(<<key.proj>>, <<>>)
    ELSE Cursor(<<key.proj>>, <<<<IF key.proj = "_data" THEN PathC ELSE NameC>>>>)

AggProviders ==
    {[key \in DataKeys(GenericC) \cup {StreamKey(u) : u \in AggUris} |->
         IF key.proj = "openInputStream"
         THEN (IF opens THEN Cursor(<<>>, <<>>) ELSE ProviderError)
         ELSE Behaviour(key, f[key])] :
       f \in [DataKeys(GenericC) -> {"raise", "empty", "row"}], opens \in BOOLEAN}

InitAgg ==
    /\ choosers = <<[Chooser(RandLo) EXCEPT !.handler = 1]>>
    /\ bound = <<1>>
    /\ ops = <<Op("open", 1, RandLo, 1, TRUE)>>
    /\ invoked = [cb \in 0..MaxOps |-> 0]
    /\ delivered = 0
    /\ last = [NoStep EXCEPT !.kind = "open", !.chooser = 1, !.op = 1]
    /\ api_version \in {ApiThreshold, ApiThreshold + 1}

DeliverAgg ==
    /\ delivered = 0
    /\ \E data \in AggIntents, prov \in AggProviders :
          DeliverResult(choosers[1].select_code, RESULT_OK, data, prov)

SpecAgg == InitAgg /\ [][DeliverAgg]_vars

(* the resolved path of an item, None when its resolution yields nothing   *)
(* or raises                                                               *)
PathOf(prov, uri) ==
    LET r == _resolve_uri(prov, uri).val IN IF Truthy(r) THEN r ELSE None

(* C7: for a multi-item result of n items the list passed to the callback  *)
(* has n entries in selection order, entry i being the resolved path of    *)
(* item i, and a null entry (None, or the empty placeholder) for an item   *)
(* whose resolution yields nothing or raises a provider error.  Stated     *)
(* below the scoped-storage threshold, where the list is handed over as    *)
(* resolved.                                                               *)
C7_OrderAndCardinality ==
    (Successful(last) /\ last.data.hasClip /\ api_version <= ApiThreshold)
       => /\ Len(last.fired) = 1
          /\ Len(last.fired[1].arg) = Len(last.data.items)
          /\ \A i \in 1..Len(last.data.items) :
                LET want == PathOf(last.prov, last.data.items[i])
                    got == last.fired[1].arg[i]
                IN  IF want = None THEN got \in {None, EmptyList} ELSE got = want

(* C8: above the scoped-storage threshold a two-item selection (both items *)
(* resolved, the copy into the cache done) reaches the callback as a       *)
(* two-element list: the cache path of the first item, then the directly   *)
(* resolved path of the second.                                            *)
C8_OnlyFirstCached ==
    (/\ Successful(last) /\ api_version > ApiThreshold
     /\ last.data.hasClip /\ Len(last.data.items) = 2
     /\ last.raised = <<>>)
       => /\ Len(last.fired) = 1
          /\ Len(last.fired[1].arg) = 2
          /\ last.fired[1].arg[1] =
                Str(join(join(CacheDir, <<"FromSharedStorage">>),
                         basename(PathOf(last.prov, last.data.items[1]).v)))
          /\ last.fired[1].arg[2] = PathOf(last.prov, last.data.items[2])

(* C9: dispatch returns normally for every delivered result and every      *)
(* provider behaviour: no listener's run ends with an uncaught error.      *)
C9_NoUncaughtError == IsDelivery(last) => last.raised = <<>>

----------------------------------------------------------------------------
(* The resolution specification: one chooser with one open() call made,    *)
(* and one successful single-item result (no ClipData) of its request      *)
(* code, over locators of every authority and scheme the strategies tell   *)
(* apart and every behaviour of the provider on the queries the locator    *)
(* can cause.                                                              *)

DocUri(scheme, authority, id) ==
    Uri(scheme, authority, Str(id), <<"/", "document", "/">> \o id)

Dl42 == DocUri("content", DownloadsAuthority, <<"42">>)
DlMsf == DocUri("content", DownloadsAuthority, <<"msf", ":", "42">>)
DlFile == DocUri("file", DownloadsAuthority, <<"42">>)
DlTree == Uri("content", DownloadsAuthority, None, <<"/", "tree", "/", "downloads">>)

MediaImage == DocUri("content", MediaAuthority, <<"image", ":", "42">>)
MediaUris ==
    {MediaImage,
     DocUri("content", MediaAuthority, <<"video", ":", "42">>),
     DocUri("content", MediaAuthority, <<"audio", ":", "42">>),
     DocUri("content", MediaAuthority, <<"document", ":", "42">>),
     DocUri("content", MediaAuthority, <<"42">>),
     DocUri("file", MediaAuthority, <<"image", ":", "42">>)}

ExternalIds ==
    {<<"primary", ":", "a.txt">>, <<"home", ":", "a.txt">>,
     <<"1234-5678", ":", "a.txt">>, <<"usb", ":", "a.txt">>,
     <<"primary", ":", "a", ":", "b">>, <<"primary", ":", "dir", "/", "a.txt">>,
     <<"primary", ":">>, <<"primary", ":", ".">>, <<"primary", ":", "..">>,
     <<"1234", ":", "a.txt">>, <<"storage", ":", "a.txt">>,
     <<":", "a.txt">>}
ExternalUris ==
    {DocUri("content", ExternalAuthority, id) : id \in ExternalIds}
    \cup {DocUri("file", ExternalAuthority, <<"primary", ":", "a.txt">>)}

ResUris ==
    {Dl42, DlMsf, DlFile, DlTree, GenericC, FileA} \cup MediaUris \cup ExternalUris

(* the queries the resolution of a locator can send                        *)
ResKeys(uri) ==
    IF uri.authority = ExternalAuthority THEN {}
    ELSE IF uri.authority = DownloadsAuthority
    THEN {Key(uri, "_display_name", "None", None)}
         \cup (IF uri.docId.t = "str" /\ Len(uri.docId.v) = 1
               THEN {Key(withAppendedId(DownloadRoots[k], uri.docId.v), proj,
                         "None", None) : k \in 1..Len(DownloadRoots),
                                         proj \in {"_data", "*"}}
               ELSE {})
         \cup (IF uri.scheme = "content" THEN DataKeys(uri) ELSE {})
    ELSE IF uri.authority = MediaAuthority
    THEN LET id == Split(uri.docId.v)
         IN  IF Len(id) # 2 \/ uri.scheme # "content" THEN {}
             ELSE LET coll == IF id[1] = <<"image">> THEN IMediaUri
                              ELSE IF id[1] = <<"video">> THEN VMediaUri
                              ELSE IF id[1] = <<"audio">> THEN AMediaUri
                              ELSE FilesUri
                  IN  {Key(coll, "_data", "_id=?", Str(id[2])),
                       Key(coll, "_data", "_id=?", ArrayOf(Str(id[2]))),
                       Key(uri, "_display_name", "None", None)}
    ELSE IF uri.scheme = "content" THEN DataKeys(uri)
    ELSE {}

(* what a row of the provider holds for a query                            *)
ValueOf(key) ==
    IF key.proj = "_display_name" THEN NameC ELSE <<"/", "data">> \o key.uri.path

Answer(key, b) ==
    LET cols == IF key.proj = "*" THEN <<"_id", "_data">> ELSE <<key.proj>>
        row == IF key.proj = "*" THEN <<<<"42">>, ValueOf(key)>>
               ELSE <<ValueOf(key)>>
    IN  IF b = "raise" THEN ProviderError
        ELSE IF b = "empty" THEN Cursor(cols, <<>>)
        ELSE Cursor(cols, <<row>>)

(* every behaviour on those queries, and a copy stream (line 241) that    *)
(* opens or fails                                                          *)
ResProviders(uri) ==
    {[key \in ResKeys(uri) \cup {StreamKey(uri)} |->
         IF key.proj = "openInputStream"
         THEN (IF opens THEN Cursor(<<>>, <<>>) ELSE ProviderError)
         ELSE Answer(key, f[key])] :
       f \in [ResKeys(uri) -> {"raise", "empty", "row"}], opens \in BOOLEAN}

InitRes ==
    /\ choosers = <<[Chooser(RandLo) EXCEPT !.handler = 1]>>
    /\ bound = <<1>>
    /\ ops = <<Op("open", 1, RandLo, 1, TRUE)>>
    /\ invoked = [cb \in 0..MaxOps |-> 0]
    /\ delivered = 0
    /\ last = [NoStep EXCEPT !.kind = "open", !.chooser = 1, !.op = 1]
    /\ api_version \in {ApiThreshold, ApiThreshold + 1}

DeliverRes ==
    /\ delivered = 0
    /\ \E uri \in ResUris :
          \E prov \in ResProviders(uri) :
             DeliverResult(choosers[1].select_code, RESULT_OK,
                           Intent(FALSE, <<>>, uri), prov)

SpecRes == InitRes /\ [][DeliverRes]_vars

----------------------------------------------------------------------------
(* Vocabulary of the resolution claims                                     *)

Item == last.data.data
IsQuery(e) == e.op = "query"
Queries(log) == SelectSeq(log, IsQuery)
QueryOf(key) == [op |-> "query", uri |-> key.uri, proj |-> key.proj,
                 sel |-> key.sel, args |-> key.args]
Raises(prov, key) == prov[key].t = "raise"
HasRow(prov, key) == prov[key].t = "rows" /\ prov[key].rows # <<>>
NameKey(uri) == [uri |-> uri, proj |-> "_display_name", sel |-> "None", args |-> None]
DataKey(uri) == [uri |-> uri, proj |-> "_data", sel |-> "None", args |-> None]
RetryKey(uri) == [uri |-> uri, proj |-> "_data", sel |-> "None",
                  args |-> [t |-> "array-none", v |-> <<>>]]
(* the three known download locations of a numeric document id, in the     *)
(* order of lines 408-415                                                  *)
Candidate(k, id, proj) ==
    [uri |-> [scheme |-> "content", authority |-> "downloads", docId |-> None,
              path |-> <<"/", <<"public_downloads", "my_downloads",
                                "all_downloads">>[k], "/">> \o id],
     proj |-> proj, sel |-> "None", args |-> None]
(* a result of the downloads fallback: a numeric document id whose         *)
(* display-name lookup raised or found nothing                             *)
InDownloadsFallback ==
    /\ Successful(last)
    /\ Item.authority = DownloadsAuthority
    /\ Item.docId.t = "str" /\ Len(Item.docId.v) = 1
    /\ ~HasRow(last.prov, NameKey(Item))
BelowThreshold == api_version <= ApiThreshold

(* C13: in the downloads fallback the three candidate roots are queried    *)
(* for _data in their fixed order and the strategy's result is the value   *)
(* of the first candidate that returns a row: a candidate that raises or   *)
(* returns nothing is skipped and masks no later one, no candidate after   *)
(* the first success is queried (nor anything else), and below the         *)
(* scoped-storage threshold that value is what the callback receives for   *)
(* a content locator.                                                      *)
C13_FirstCandidateWins ==
    InDownloadsFallback =>
       LET id == Item.docId.v
           hits == {k \in 1..3 : HasRow(last.prov, Candidate(k, id, "_data"))}
       IN  hits # {} =>
              LET first == CHOOSE k \in hits : \A j \in hits : k <= j
                  value == Str(<<"/", "data">> \o Candidate(first, id, "_data").uri.path)
              IN  /\ _handle_downloads_documents(last.prov, Item).val = value
                  /\ Queries(last.log) =
                        <<QueryOf(NameKey(Item))>> \o
                        [k \in 1..first |-> QueryOf(Candidate(k, id, "_data"))]
                  /\ (BelowThreshold /\ Item.scheme = "content")
                        => /\ Len(last.fired) = 1
                           /\ last.fired[1].arg = <<value>>

C13_Witness ==
    /\ InDownloadsFallback /\ BelowThreshold /\ Item.scheme = "content"
    /\ Raises(last.prov, Candidate(1, Item.docId.v, "_data"))
    /\ ~Raises(last.prov, Candidate(2, Item.docId.v, "_data"))
    /\ ~HasRow(last.prov, Candidate(2, Item.docId.v, "_data"))
    /\ HasRow(last.prov, Candidate(3, Item.docId.v, "_data"))
    /\ Len(last.fired) = 1
    /\ last.fired[1].arg = <<Str(<<"/", "data", "/", "all_downloads", "/", "42">>)>>

(* C14: when every stage of the downloads strategy produces nothing (the   *)
(* display-name lookup fails, no _data candidate returns a row, every      *)
(* aggregate-all query raises or returns no rows) the strategy's result is *)
(* null.                                                                   *)
C14_ExhaustedIsNull ==
    (/\ InDownloadsFallback
     /\ \A k \in 1..3 :
           /\ ~HasRow(last.prov, Candidate(k, Item.docId.v, "_data"))
           /\ ~HasRow(last.prov, Candidate(k, Item.docId.v, "*")))
       => _handle_downloads_documents(last.prov, Item).val = None

(* a result whose locator is handled by none of the three document         *)
(* strategies and has the content scheme                                   *)
GenericContent ==
    /\ Successful(last)
    /\ Item.scheme = "content"
    /\ Item.authority \notin {ExternalAuthority, DownloadsAuthority, MediaAuthority}

(* the _data attempts of the generic stage left the result empty           *)
StillEmpty(prov, uri) ==
    /\ ~HasRow(prov, DataKey(uri))
    /\ Raises(prov, DataKey(uri)) => ~HasRow(prov, RetryKey(uri))

(* C15: generic-authority resolution of a content locator first queries    *)
(* _data; if that query raises it retries it with the filter argument      *)
(* wrapped as a one-element sequence (and only then); and whenever the     *)
(* result is still empty after those attempts it queries _display_name     *)
(* against the original locator, and the value of that query (its row's    *)
(* name, or null when it has no row) is the item's result, which below the *)
(* scoped-storage threshold is what the callback receives.                 *)
C15_GenericFallback ==
    GenericContent =>
       LET q == Queries(last.log)
           retried == Raises(last.prov, DataKey(Item))
           named == StillEmpty(last.prov, Item)
       IN  /\ q # <<>> /\ q[1] = QueryOf(DataKey(Item))
           /\ Len(q) = 1 + (IF retried THEN 1 ELSE 0) + (IF named THEN 1 ELSE 0)
           /\ retried => q[2] = QueryOf(RetryKey(Item))
           /\ named => q[Len(q)] = QueryOf(NameKey(Item))
           /\ (named /\ ~Raises(last.prov, NameKey(Item)) /\ BelowThreshold)
                 => /\ Len(last.fired) = 1
                    /\ last.fired[1].arg =
                          <<IF HasRow(last.prov, NameKey(Item))
                            THEN Str(last.prov[NameKey(Item)].rows[1][1])
                            ELSE None>>

(* the image collection, MediaStore.Images.Media.EXTERNAL_CONTENT_URI      *)
ImageCollection ==
    [scheme |-> "content", authority |-> "media", docId |-> None,
     path |-> <<"/", "external", "/", "images", "/", "media">>]

(* C16: after an open() call, a successful single-item result whose        *)
(* locator has the content scheme, the media provider's authority and the  *)
(* document id "image:42": exactly one query is executed, against the      *)
(* image collection with the filter _id=? and the argument 42, and the     *)
(* callback is invoked once with a one-element list.                       *)
C16_MediaImageScenario ==
    (/\ Successful(last)
     /\ Item.scheme = "content" /\ Item.authority = MediaAuthority
     /\ Item.docId = Str(<<"image", ":", "42">>))
       => /\ Queries(last.log) =
                <<[op |-> "query", uri |-> ImageCollection, proj |-> "_data",
                   sel |-> "_id=?", args |-> Str(<<"42">>)]>>
          /\ Len(last.fired) = 1 /\ invoked[ops[1].cb] = 1
          /\ Len(last.fired[1].arg) = 1

(* C17: every query sent to the provider, in every strategy and fallback   *)
(* stage, is immediately preceded by a read-permission grant on the same   *)
(* locator.                                                                *)
C17_GrantBeforeQuery ==
    \A i \in 1..Len(last.log) :
       last.log[i].op = "query"
          => /\ i > 1
             /\ last.log[i - 1] =
                   [op |-> "grant", uri |-> last.log[i].uri, proj |-> "",
                    sel |-> "", args |-> None]

C17_Witness ==
    /\ InDownloadsFallback /\ Item.scheme = "content"
    /\ Len(Queries(last.log)) = 10
    /\ Len(last.log) = 20

(* C18: for a locator with the file scheme, whatever its authority,        *)
(* resolution sends no query and the result is the path component of the   *)
(* original reference (which below the scoped-storage threshold is what    *)
(* the callback receives).                                                 *)
C18_FileSchemePassthrough ==
    (Successful(last) /\ Item.scheme = "file")
       => /\ Queries(last.log) = <<>>
          /\ BelowThreshold
                => /\ Len(last.fired) = 1
                   /\ last.fired[1].arg = <<Str(Item.path)>>

(* the first colon of a document id (0: none)                              *)
FirstColon(id) ==
    IF \E i \in 1..Len(id) : id[i] = ":"
    THEN CHOOSE i \in 1..Len(id) : id[i] = ":" /\ \A j \in 1..(i - 1) : id[j] # ":"
    ELSE 0

(* C19: local-storage resolution splits the document id type:name at its   *)
(* first colon and returns root/name with no query: the primary root for   *)
(* type primary, primary root plus Documents for home, the removable-media *)
(* root for the removable volume's token, the primary root for every other *)
(* type; for every document id, names containing a colon included.         *)
C19_ExternalSplitsOnce ==
    (/\ Successful(last) /\ BelowThreshold
     /\ Item.scheme = "content" /\ Item.authority = ExternalAuthority
     /\ FirstColon(Item.docId.v) # 0)
       => LET id == Item.docId.v
              k == FirstColon(id)
              type == SubSeq(id, 1, k - 1)
              name == SubSeq(id, k + 1, Len(id))
              root == IF type = <<"primary">> THEN <<"/", "sdcard">>
                      ELSE IF type = <<"home">> THEN <<"/", "sdcard", "/", "Documents">>
                      ELSE IF type = <<"1234-5678">>
                           THEN <<"/", "storage", "/", "1234-5678">>
                      ELSE <<"/", "sdcard">>
          IN  /\ last.log = <<>>
              /\ Len(last.fired) = 1
              /\ last.fired[1].arg = <<Str(root \o <<"/">> \o name)>>

(* C20: when the downloads strategy yields no path (null or the empty      *)
(* string) for a content locator, resolution continues with the generic    *)
(* stage against the original downloads locator: a _data query, its retry  *)
(* when it raises, then a _display_name query when the result is still     *)
(* empty; the value those queries produce (the row of the first _data      *)
(* attempt that has one, else what the _display_name query returns) is the *)
(* item's result, which below the scoped-storage threshold is what the     *)
(* callback receives; when the strategy yields a path, no query of the     *)
(* generic stage is sent.                                                  *)
C20_DownloadsThenGeneric ==
    (/\ Successful(last)
     /\ Item.scheme = "content" /\ Item.authority = DownloadsAuthority
     /\ Item.docId.t = "str" /\ Len(Item.docId.v) = 1)
       => LET d == _handle_downloads_documents(last.prov, Item)
              q == Queries(last.log)
              n == Len(Queries(d.log))
              retried == Raises(last.prov, DataKey(Item))
              named == StillEmpty(last.prov, Item)
              value == IF HasRow(last.prov, DataKey(Item))
                       THEN Str(last.prov[DataKey(Item)].rows[1][1])
                       ELSE IF retried /\ HasRow(last.prov, RetryKey(Item))
                       THEN Str(last.prov[RetryKey(Item)].rows[1][1])
                       ELSE IF HasRow(last.prov, NameKey(Item))
                       THEN Str(last.prov[NameKey(Item)].rows[1][1])
                       ELSE None
          IN  /\ SubSeq(q, 1, n) = Queries(d.log)
              /\ (d.val.t = "str" /\ d.val.v # <<>>) => Len(q) = n
              /\ (d.val = None \/ d.val = Str(<<>>))
                    => /\ Len(q) = n + 1 + (IF retried THEN 1 ELSE 0)
                                     + (IF named THEN 1 ELSE 0)
                       /\ q[n + 1] = QueryOf(DataKey(Item))
                       /\ retried => q[n + 2] = QueryOf(RetryKey(Item))
                       /\ named => q[Len(q)] = QueryOf(NameKey(Item))
                       /\ (/\ BelowThreshold
                           /\ named => ~Raises(last.prov, NameKey(Item)))
                             => /\ Len(last.fired) = 1
                                /\ last.fired[1].arg = <<value>>

====
